---- MODULE Spec2Model ----
(***************************************************************************)
(* A model of gigaanalysis/data.py: the Data class (a wrapper of a two     *)
(* column float array, x in column 0 and y in column 1), its arithmetic,   *)
(* indexing, setters, resampling, and the helpers sum_data and mean.       *)
(*                                                                         *)
(* Floats are modelled as extended rationals <<n, d>>: d > 0 is the        *)
(* finite value n/d in lowest terms, <<1,0>> is +inf, <<-1,0>> is -inf and *)
(* <<0,0>> is NaN.  Rounding error and the sign of zero are not modelled.  *)
(*                                                                         *)
(* The code raises ValueError for every shape, axis and range violation;   *)
(* the model names each raise site by the kind its message describes:      *)
(* "ShapeError" (wrong dimension / columns / length), "MismatchedAxisError"*)
(* (x values differ) and "RangeError" (outside the x range, min > max).    *)
(* Every other exception keeps its Python class name.                      *)
(***************************************************************************)
EXTENDS Integers, Sequences, FiniteSets, TLC

VARIABLES d, e, res, mutations, shares

vars == <<d, e, res, mutations, shares>>

(***************************************************************************)
(* float64 values and their arithmetic                                     *)
(***************************************************************************)
NaN == <<0, 0>>
PInf == <<1, 0>>
R(n) == <<n, 1>>

IsNaN(a) == a = NaN
IsFinite(a) == a[2] # 0
IAbs(n) == IF n < 0 THEN -n ELSE n
Sign(n) == IF n > 0 THEN 1 ELSE IF n < 0 THEN -1 ELSE 0

RECURSIVE GCD(_, _)
GCD(a, b) == IF b = 0 THEN a ELSE GCD(b, a % b)

Norm(n, dd) ==
    IF dd = 0 THEN <<Sign(n), 0>>
    ELSE LET g == GCD(IAbs(n), IAbs(dd))
             s == Sign(dd)
         IN  <<(s * n) \div g, (s * dd) \div g>>

\* IEEE comparisons: every comparison with a NaN is false
FEq(a, b) == ~IsNaN(a) /\ ~IsNaN(b) /\ a = b
FLt(a, b) ==
    /\ ~IsNaN(a)
    /\ ~IsNaN(b)
    /\ IF a[2] = 0 /\ b[2] = 0 THEN a[1] < b[1] ELSE a[1] * b[2] < b[1] * a[2]
FGt(a, b) == FLt(b, a)
FLe(a, b) == FLt(a, b) \/ FEq(a, b)

FNeg(a) == <<-a[1], a[2]>>
FAbs(a) == <<IAbs(a[1]), a[2]>>
FAdd(a, b) ==
    IF IsNaN(a) \/ IsNaN(b) THEN NaN
    ELSE IF a[2] = 0 THEN (IF b[2] = 0 /\ b # a THEN NaN ELSE a)
    ELSE IF b[2] = 0 THEN b
    ELSE Norm(a[1] * b[2] + b[1] * a[2], a[2] * b[2])
FSub(a, b) == FAdd(a, FNeg(b))
FMul(a, b) == Norm(a[1] * b[1], a[2] * b[2])
FInv(a) == IF a[1] < 0 THEN <<-a[2], -a[1]>> ELSE <<a[2], a[1]>>
FDiv(a, b) == FMul(a, FInv(b))

\* floor, ceil and truncation of a float (non-finite values are kept)
FFloor(a) == IF IsFinite(a) THEN R(a[1] \div a[2]) ELSE a
FCeil(a) == FNeg(FFloor(FNeg(a)))
FTrunc(a) == IF FLt(a, R(0)) THEN FCeil(a) ELSE FFloor(a)

\* C fmod: a - b * trunc(a / b)
FFmod(a, b) ==
    IF IsNaN(a) \/ IsNaN(b) \/ ~IsFinite(a) \/ b = R(0) THEN NaN
    ELSE IF ~IsFinite(b) THEN a
    ELSE FSub(a, FMul(b, FTrunc(FDiv(a, b))))

\* numpy's remainder for floats: fmod, moved to the sign of the divisor
FMod(a, b) ==
    LET m == FFmod(a, b)
    IN  IF b = R(0) THEN m
        ELSE IF m # R(0) /\ (FLt(b, R(0)) # FLt(m, R(0))) THEN FAdd(m, b)
        ELSE m

\* numpy's floor_divide for floats
FFloorDiv(a, b) ==
    LET m == FFmod(a, b)
        q == FDiv(FSub(a, m), b)
    IN  IF b = R(0) THEN FDiv(a, b)
        ELSE IF m # R(0) /\ (FLt(b, R(0)) # FLt(m, R(0)))
             THEN FFloor(FSub(q, R(1)))
        ELSE FFloor(q)

RECURSIVE IPow(_, _)
IPow(a, n) == IF n = 0 THEN R(1) ELSE FMul(a, IPow(a, n - 1))

IsInteger(a) == a[2] = 1

\* C pow, for the exponents the model draws: integers, infinities and NaN
FPow(a, b) ==
    IF b = R(0) \/ a = R(1) THEN R(1)
    ELSE IF IsNaN(a) \/ IsNaN(b) THEN NaN
    ELSE IF ~IsFinite(b)
         THEN (IF FAbs(a) = R(1) THEN R(1)
               ELSE IF FLt(FAbs(a), R(1)) = (b = PInf) THEN R(0) ELSE PInf)
    ELSE IF IsInteger(b)
         THEN (IF b[1] > 0 THEN IPow(a, b[1]) ELSE FInv(IPow(a, -b[1])))
    ELSE IF FLt(a, R(0)) THEN NaN
    ELSE IF a = R(0) THEN (IF b[1] > 0 THEN R(0) ELSE PInf)
    ELSE IF a = PInf THEN (IF b[1] > 0 THEN PInf ELSE R(0))
    ELSE NaN

(***************************************************************************)
(* numpy arrays: a shape and the elements in row-major order.  None (an    *)
(* absent argument) is the array of dimension 0 that holds no element.     *)
(***************************************************************************)
None == [shape |-> <<>>, flat |-> <<>>]
Scalar(v) == [shape |-> <<>>, flat |-> <<v>>]
Arr1(s) == [shape |-> <<Len(s)>>, flat |-> s]
Arr2(n, c, s) == [shape |-> <<n, c>>, flat |-> s]
ndim(a) == Len(a.shape)
size(a) == Len(a.flat)

Col(rows, c) == [i \in 1..Len(rows) |-> rows[i][c]]
Zip(xs, ys) == [i \in 1..Len(xs) |-> <<xs[i], ys[i]>>]
\* the rows of an array of shape (n, 2)
RowsOf(a) == [i \in 1..a.shape[1] |-> <<a.flat[2 * i - 1], a.flat[2 * i]>>]
\* the array of shape (n, 2) of a sequence of rows
Matrix(rows) ==
    Arr2(Len(rows), 2,
         [j \in 1..(2 * Len(rows)) |-> rows[(j + 1) \div 2][2 - (j % 2)]])

RECURSIVE SelectRows(_, _)
SelectRows(rows, keep) ==
    IF rows = <<>> THEN <<>>
    ELSE IF keep[1] THEN <<rows[1]>> \o SelectRows(Tail(rows), Tail(keep))
    ELSE SelectRows(Tail(rows), Tail(keep))

\* numpy's sort order: NaN sorts after every other value
SortsAfter(a, b) == (IsNaN(a) /\ ~IsNaN(b)) \/ FGt(a, b)

RECURSIVE InsertRow(_, _)
InsertRow(sorted, row) ==
    IF sorted = <<>> THEN <<row>>
    ELSE IF SortsAfter(sorted[1][1], row[1]) THEN <<row>> \o sorted
    ELSE <<sorted[1]>> \o InsertRow(Tail(sorted), row)

\* values[np.argsort(values[:, 0]), :] (ties keep their order: numpy sorts
\* arrays of fewer than 17 elements by insertion)
RECURSIVE ArgsortRows(_)
ArgsortRows(rows) ==
    IF rows = <<>> THEN <<>>
    ELSE InsertRow(ArgsortRows(SubSeq(rows, 1, Len(rows) - 1)), rows[Len(rows)])

\* values[np.isfinite(values).any(axis=1)]
StripRows(rows) ==
    SelectRows(rows, [i \in 1..Len(rows) |->
                        IsFinite(rows[i][1]) \/ IsFinite(rows[i][2])])

(***************************************************************************)
(* The Data object: the backing matrix and the two column views.           *)
(***************************************************************************)
\* the object with x read from column 1 and y from column 0
MkData_swapped(rows) == [values |-> rows, x |-> Col(rows, 2), y |-> Col(rows, 1)]

MkData(rows) == [values |-> rows, x |-> Col(rows, 1), y |-> Col(rows, 2)]
NoData == MkData(<<>>)
Raise(kind) == [err |-> kind, obj |-> NoData]
Ok(obj) == [err |-> "none", obj |-> obj]

(***************************************************************************)
(* Memory.  self.values is a numpy array over a buffer, and self.x and     *)
(* self.y are views of its columns.  The arrays of two objects may lie     *)
(* over one buffer: shares tells what e.values has in common with          *)
(* d.values.  When linked, row i of e.values is the memory of row off + i  *)
(* of d.values; how names the call that made e from d.                     *)
(***************************************************************************)
Link(how, off) == [linked |-> TRUE, off |-> off, how |-> how]
Copied(how) == [linked |-> FALSE, off |-> 0, how |-> how]
NoLink == Copied("none")

(***************************************************************************)
(* scipy.interpolate.interp1d (linear).  The two implementations the       *)
(* installed scipy may run differ only on degenerate samples (a single     *)
(* sample, repeated or non-finite x): "call_linear" is interp1d's own      *)
(* slope formula and needs two samples, "np_interp" delegates to           *)
(* numpy.interp and accepts one.                                           *)
(***************************************************************************)
Libs == {"call_linear", "np_interp"}

RECURSIVE FMinSeq(_)
FMinSeq(s) ==
    IF Len(s) = 1 THEN s[1]
    ELSE LET m == FMinSeq(Tail(s))
         IN  IF IsNaN(s[1]) \/ IsNaN(m) THEN NaN
             ELSE IF FLt(m, s[1]) THEN m ELSE s[1]
FMaxSeq(s) == FNeg(FMinSeq([i \in 1..Len(s) |-> FNeg(s[i])]))

\* np.searchsorted(xs, q, side='left') as a count of the elements before q
RECURSIVE SearchLeft(_, _)
SearchLeft(xs, q) ==
    IF xs = <<>> THEN 0
    ELSE IF SortsAfter(q, xs[1]) THEN 1 + SearchLeft(Tail(xs), q)
    ELSE 0

\* np.searchsorted(xs, q, side='right')
RECURSIVE SearchRight(_, _)
SearchRight(xs, q) ==
    IF xs = <<>> THEN 0
    ELSE IF SortsAfter(xs[1], q) THEN 0
    ELSE 1 + SearchRight(Tail(xs), q)

Clip(i, lo, hi) == IF i > hi THEN hi ELSE IF i < lo THEN lo ELSE i

\* interp1d._call_linear at one query, xs sorted and Len(xs) >= 2
CallLinear(xs, ys, q) ==
    LET hi == Clip(SearchLeft(xs, q), 1, Len(xs) - 1) + 1
        lo == hi - 1
        slope == FDiv(FSub(ys[hi], ys[lo]), FSub(xs[hi], xs[lo]))
    IN  FAdd(FMul(slope, FSub(q, xs[lo])), ys[lo])

\* numpy's linear scan for the last sample at or below the key
RECURSIVE ScanIndex(_, _, _)
ScanIndex(xs, q, i) ==
    IF i < Len(xs) /\ FLe(xs[i + 1], q) THEN ScanIndex(xs, q, i + 1) ELSE i

\* numpy.interp at one query, xs sorted
NpInterp(xs, ys, q) ==
    LET n == Len(xs)
        j == IF FLt(q, xs[1]) THEN 0
             ELSE IF FGt(q, xs[n]) THEN n + 1
             ELSE ScanIndex(xs, q, 1)
    IN  IF IsNaN(q) THEN q
        ELSE IF j = 0 THEN ys[1]
        ELSE IF j >= n THEN ys[n]
        ELSE IF FEq(xs[j], q) THEN ys[j]
        ELSE LET slope == FDiv(FSub(ys[j + 1], ys[j]), FSub(xs[j + 1], xs[j]))
                 r1 == FAdd(FMul(slope, FSub(q, xs[j])), ys[j])
                 r2 == FAdd(FMul(slope, FSub(q, xs[j + 1])), ys[j + 1])
             IN  IF ~IsNaN(r1) THEN r1
                 ELSE IF ~IsNaN(r2) THEN r2
                 ELSE IF FEq(ys[j], ys[j + 1]) THEN ys[j]
                 ELSE r2

\* interp1d(x, y, bounds_error=..., fill_value=(below, above))(qs)
interp1d(xs0, ys0, qs, bounds_error, below, above, lib) ==
    LET call(xs, ys) ==
            LET n == Len(xs)
                isBelow(q) == FLt(q, xs[1])
                isAbove(q) == FGt(q, xs[n])
                at(q) == IF isBelow(q) THEN below
                         ELSE IF isAbove(q) THEN above
                         ELSE IF lib = "np_interp" THEN NpInterp(xs, ys, q)
                         ELSE CallLinear(xs, ys, q)
            IN  IF n < (IF lib = "np_interp" THEN 1 ELSE 2)
                THEN [err |-> "ValueError", vals |-> <<>>]
                ELSE IF bounds_error
                        /\ \E i \in 1..Len(qs) : isBelow(qs[i]) \/ isAbove(qs[i])
                THEN [err |-> "ValueError", vals |-> <<>>]
                ELSE [err |-> "none", vals |-> [i \in 1..Len(qs) |-> at(qs[i])]]
        sorted(rows) == call(Col(rows, 1), Col(rows, 2))
    IN  sorted(ArgsortRows(Zip(xs0, ys0)))

(***************************************************************************)
(* Data.__init__                                                           *)
(***************************************************************************)
StripSortModes == {"none", "strip", "sort", "both"}

\* lines 122-129: the strip_sort transforms of the rows
strip_sort_rows(rows, strip_sort) ==
    IF strip_sort = "strip" THEN StripRows(rows)
    ELSE IF strip_sort = "sort" THEN ArgsortRows(rows)
    ELSE IF strip_sort = "both" THEN ArgsortRows(StripRows(rows))
    ELSE rows

\* __init__ accepting any 2-D array of two columns or more, of which it keeps
\* the first two
Data_init_plain_wide(values, split_y, strip_sort) ==
    IF split_y # None /\ ndim(values) # 1 THEN Raise("ShapeError")
    ELSE IF split_y # None /\ ndim(split_y) # 1 THEN Raise("ShapeError")
    ELSE IF split_y # None /\ size(values) # size(split_y)
         THEN Raise("AttributeError")
    ELSE LET joined == IF split_y # None
                       THEN Matrix(Zip(values.flat, split_y.flat))
                       ELSE values
             wide(c) == [i \in 1..joined.shape[1] |->
                           <<joined.flat[c * (i - 1) + 1],
                             joined.flat[c * (i - 1) + 2]>>]
         IN  IF ndim(joined) # 2 THEN Raise("ShapeError")
             ELSE IF joined.shape[2] < 2 THEN Raise("ShapeError")
             ELSE Ok(MkData(strip_sort_rows(wide(joined.shape[2]), strip_sort)))

\* lines 93-135: __init__ up to the interp_full step.  values and split_y are
\* arrays (split_y = None when absent).
Data_init_plain(values, split_y, strip_sort) ==
    IF split_y # None /\ ndim(values) # 1 THEN Raise("ShapeError")
    ELSE IF split_y # None /\ ndim(split_y) # 1 THEN Raise("ShapeError")
    ELSE IF split_y # None /\ size(values) # size(split_y)
         THEN Raise("AttributeError")
    ELSE LET joined == IF split_y # None
                       THEN Matrix(Zip(values.flat, split_y.flat))
                       ELSE values
         IN  IF ndim(joined) # 2 THEN Raise("ShapeError")
             ELSE IF joined.shape[2] # 2 THEN Raise("ShapeError")
             ELSE Ok(MkData(strip_sort_rows(RowsOf(joined), strip_sort)))

\* Data(x, y) with two 1-D columns, as the methods call it
Data_xy(xs, ys) == Data_init_plain(Arr1(xs), Arr1(ys), "none")

\* int(round(a)): round half to even; the error of a non-finite argument
RoundInt(a) ==
    LET f == a[1] \div a[2]
        twice == 2 * a[1] - 2 * f * a[2]
    IN  IF twice < a[2] THEN f
        ELSE IF twice > a[2] THEN f + 1
        ELSE IF f % 2 = 0 THEN f ELSE f + 1

\* np.linspace(start, stop, num), num >= 0
linspace(start, stop, num) ==
    [i \in 1..num |->
        IF num = 1 THEN start
        ELSE FAdd(start, FMul(R(i - 1), FDiv(FSub(stop, start), R(num - 1))))]

\* np.arange(lo, hi, step), step # 0: ceil((hi - lo) / step) points
arange(lo, hi, step) ==
    LET c == FCeil(FDiv(FSub(hi, lo), step))
        n == IF IsFinite(c) /\ c[1] > 0 THEN c[1] ELSE 0
    IN  [i \in 1..n |-> FAdd(lo, FMul(R(i - 1), step))]

\* the even grid started at floor(min_x / step) * step instead of the ceiling
even_grid_floor_start(self, step_size) ==
    LET grid(x_start, x_stop, span) ==
            IF IsNaN(span) THEN [err |-> "ValueError", vals |-> <<>>]
            ELSE IF ~IsFinite(span) THEN [err |-> "OverflowError", vals |-> <<>>]
            ELSE IF RoundInt(span) + 1 < 0 THEN [err |-> "ValueError", vals |-> <<>>]
            ELSE [err |-> "none",
                  vals |-> linspace(x_start, x_stop, RoundInt(span) + 1)]
        between(x_start, x_stop) ==
            grid(x_start, x_stop, FDiv(FSub(x_stop, x_start), step_size))
    IN  IF Len(self.x) = 0 THEN [err |-> "ValueError", vals |-> <<>>]
        ELSE between(FMul(FFloor(FDiv(FMinSeq(self.x), step_size)), step_size),
                     FMul(FFloor(FDiv(FMaxSeq(self.x), step_size)), step_size))

\* lines 607-610 / 638-641: the even grid of interp_full and to_even
even_grid(self, step_size) ==
    LET grid(x_start, x_stop, span) ==
            IF IsNaN(span) THEN [err |-> "ValueError", vals |-> <<>>]
            ELSE IF ~IsFinite(span) THEN [err |-> "OverflowError", vals |-> <<>>]
            ELSE IF RoundInt(span) + 1 < 0 THEN [err |-> "ValueError", vals |-> <<>>]
            ELSE [err |-> "none",
                  vals |-> linspace(x_start, x_stop, RoundInt(span) + 1)]
        between(x_start, x_stop) ==
            grid(x_start, x_stop, FDiv(FSub(x_stop, x_start), step_size))
    IN  IF Len(self.x) = 0 THEN [err |-> "ValueError", vals |-> <<>>]
        ELSE between(FMul(FCeil(FDiv(FMinSeq(self.x), step_size)), step_size),
                     FMul(FFloor(FDiv(FMaxSeq(self.x), step_size)), step_size))

\* lines 597-612: interp_full, a new object on the even grid
interp_full(self, step_size, lib) ==
    LET new(x_vals, y_vals) ==
            IF y_vals.err # "none" THEN Raise(y_vals.err)
            ELSE Data_xy(x_vals, y_vals.vals)
        on(g) ==
            IF g.err # "none" THEN Raise(g.err)
            ELSE new(g.vals,
                     interp1d(self.x, self.y, g.vals, TRUE, NaN, NaN, lib))
    IN  on(even_grid(self, step_size))

\* lines 630-645: to_even, self.__init__(x_vals, y_vals); the object is
\* unchanged when a step before the __init__ call raises
to_even(self, step_size, lib) ==
    LET init(x_vals, y_vals) ==
            IF y_vals.err # "none" THEN [err |-> y_vals.err, obj |-> self]
            ELSE Data_xy(x_vals, y_vals.vals)
        on(g) ==
            IF g.err # "none" THEN [err |-> g.err, obj |-> self]
            ELSE init(g.vals,
                      interp1d(self.x, self.y, g.vals, TRUE, NaN, NaN, lib))
    IN  on(even_grid(self, step_size))

\* lines 88-138: Data(values, split_y, strip_sort, interp_full); interp_full
\* is the step, R(0) standing for the falsy values None and 0 (no resampling)
Data_init(values, split_y, strip_sort, step, lib) ==
    LET resampled(even) == IF even.err # "none" THEN Raise(even.err) ELSE even
        then(made) == IF made.err # "none" \/ step = R(0) THEN made
                      ELSE resampled(to_even(made.obj, step, lib))
    IN  then(Data_init_plain(values, split_y, strip_sort))

\* lines 90-91: Data(other) reads other.values
Data_copy(other) == Data_init_plain(Matrix(other.values), None, "none")

(***************************************************************************)
(* The arithmetic protocol.  An operand is a Data object, an array-like    *)
(* (coerced by np.asarray) or an object np.asarray cannot make a float     *)
(* array of.                                                               *)
(***************************************************************************)
OpData(obj) == [py |-> "Data", data |-> obj, arr |-> None]
OpArr(a) == [py |-> "array", data |-> NoData, arr |-> a]
OpObject == [py |-> "object", data |-> NoData, arr |-> None]

\* np.array_equal(a, b): same shape and every pair of elements ==
array_equal(a, b) ==
    Len(a) = Len(b) /\ \A i \in 1..Len(a) : FEq(a[i], b[i])

\* __maths_check comparing only the lengths of the two x columns
maths_check_length_only(self, other) ==
    IF other.py = "Data"
    THEN (IF Len(self.x) = Len(other.data.x)
          THEN [err |-> "none", arr |-> Arr1(other.data.y)]
          ELSE [err |-> "MismatchedAxisError", arr |-> None])
    ELSE IF other.py = "object" THEN [err |-> "TypeError", arr |-> None]
    ELSE IF size(other.arr) = 1 THEN [err |-> "none", arr |-> other.arr]
    ELSE IF ndim(other.arr) # 1 THEN [err |-> "ShapeError", arr |-> None]
    ELSE IF size(other.arr) # Len(self.x)
         THEN [err |-> "ShapeError", arr |-> None]
    ELSE [err |-> "none", arr |-> other.arr]

\* lines 162-201: __maths_check, the array to calculate with or the error
maths_check(self, other) ==
    IF other.py = "Data"
    THEN (IF array_equal(self.x, other.data.x)
          THEN [err |-> "none", arr |-> Arr1(other.data.y)]
          ELSE [err |-> "MismatchedAxisError", arr |-> None])
    ELSE IF other.py = "object" THEN [err |-> "TypeError", arr |-> None]
    ELSE IF size(other.arr) = 1 THEN [err |-> "none", arr |-> other.arr]
    ELSE IF ndim(other.arr) # 1 THEN [err |-> "ShapeError", arr |-> None]
    ELSE IF size(other.arr) # Len(self.x)
         THEN [err |-> "ShapeError", arr |-> None]
    ELSE [err |-> "none", arr |-> other.arr]

BinaryOps ==
    {"mul", "rmul", "truediv", "rtruediv", "add", "radd", "sub", "rsub",
     "mod", "rmod", "floordiv", "rfloordiv", "pow", "rpow"}

\* y_op with __rsub__ written as __sub__ (self.y - other)
y_op_rsub_swapped(op, y, o) ==
    CASE op \in {"mul", "rmul"} -> FMul(y, o)
      [] op = "truediv" -> FDiv(y, o)
      [] op = "rtruediv" -> FDiv(o, y)
      [] op \in {"add", "radd"} -> FAdd(y, o)
      [] op \in {"sub", "rsub"} -> FSub(y, o)
      [] op = "mod" -> FMod(y, o)
      [] op = "rmod" -> FMod(o, y)
      [] op = "floordiv" -> FFloorDiv(y, o)
      [] op = "rfloordiv" -> FFloorDiv(o, y)
      [] op = "pow" -> FPow(y, o)
      [] op = "rpow" -> FPow(o, y)

\* the expression each operator method evaluates on one element: self.y on
\* the left in __op__, on the right in the reflected __rop__
y_op(op, y, o) ==
    CASE op = "mul" -> FMul(y, o)
      [] op = "rmul" -> FMul(o, y)
      [] op = "truediv" -> FDiv(y, o)
      [] op = "rtruediv" -> FDiv(o, y)
      [] op = "add" -> FAdd(y, o)
      [] op = "radd" -> FAdd(o, y)
      [] op = "sub" -> FSub(y, o)
      [] op = "rsub" -> FSub(o, y)
      [] op = "mod" -> FMod(y, o)
      [] op = "rmod" -> FMod(o, y)
      [] op = "floordiv" -> FFloorDiv(y, o)
      [] op = "rfloordiv" -> FFloorDiv(o, y)
      [] op = "pow" -> FPow(y, o)
      [] op = "rpow" -> FPow(o, y)

\* self.y <op> other under numpy broadcasting: an operand of one element is
\* repeated, and one of dimension 2 or more makes the result that dimension
broadcast_y(op, ys, a) ==
    LET vals == [i \in 1..Len(ys) |->
                   y_op(op, ys[i], IF size(a) = 1 THEN a.flat[1] ELSE a.flat[i])]
    IN  IF ndim(a) <= 1 THEN Arr1(vals)
        ELSE [shape |-> [i \in 1..ndim(a) |->
                           IF i = ndim(a) THEN Len(ys) ELSE 1],
              flat |-> vals]

\* the operators with __sub__ returning a copy of self
binary_op_sub_ignored(op, self, other) ==
    LET chk == maths_check(self, other)
    IN  IF chk.err # "none" THEN Raise(chk.err)
        ELSE IF op = "sub" THEN Data_xy(self.x, self.y)
        ELSE Data_init_plain(Arr1(self.x), broadcast_y(op, self.y, chk.arr),
                             "none")

\* lines 203-264: other = self.__maths_check(other, ...);
\* return Data(self.x, self.y <op> other)
binary_op(op, self, other) ==
    LET chk == maths_check(self, other)
    IN  IF chk.err # "none" THEN Raise(chk.err)
        ELSE Data_init_plain(Arr1(self.x), broadcast_y(op, self.y, chk.arr),
                             "none")

\* __eq__ comparing the two objects structurally, a NaN equal to a NaN
eq_nan_equal(self, other) == other.py = "Data" /\ self.values = other.data.values

\* lines 279-285: __eq__; np.array_equal compares the shapes and then the
\* elements with ==
eq(self, other) ==
    IF other.py # "Data" THEN FALSE
    ELSE /\ Len(self.values) = Len(other.data.values)
         /\ array_equal(self.x, other.data.x)
         /\ array_equal(self.y, other.data.y)

UnaryOps == {"abs", "neg", "pos"}

\* lines 266-277: __abs__ uses the builtin abs; __neg__ and __pos__ call the
\* names neg and pos, which the module never binds
unary_op(op, self) ==
    IF op = "abs"
    THEN Data_xy(self.x, [i \in 1..Len(self.y) |-> FAbs(self.y[i])])
    ELSE Raise("NameError")

\* lines 692-704: total = data_list[0]; total += data_set.y for the rest
RECURSIVE sum_from(_, _)
sum_from(total, rest) ==
    IF rest = <<>> \/ total.err # "none" THEN total
    ELSE sum_from(binary_op("add", total.obj, OpArr(Arr1(rest[1].y))),
                  Tail(rest))

\* sum_data whose loop stops one element early
sum_data_short(data_list) ==
    IF data_list = <<>> THEN Raise("IndexError")
    ELSE sum_from(Ok(data_list[1]), SubSeq(data_list, 2, Len(data_list) - 1))

sum_data(data_list) ==
    IF data_list = <<>> THEN Raise("IndexError")
    ELSE sum_from(Ok(data_list[1]), Tail(data_list))

\* lines 707-716: sum_data(data_list) / len(data_list)
mean(data_list) ==
    LET total == sum_data(data_list)
    IN  IF total.err # "none" THEN total
        ELSE binary_op("truediv", total.obj,
                       OpArr(Scalar(R(Len(data_list)))))

(***************************************************************************)
(* Indexing.  An index is a Python int, a slice lo:hi:step (step > 0), a   *)
(* 1-D boolean mask, a 1-D array of ints, an array of dimension 2, or a    *)
(* tuple.                                                                  *)
(***************************************************************************)
KInt(i) == [kind |-> "int", i |-> i]
KSlice(lo, hi, step) == [kind |-> "slice", lo |-> lo, hi |-> hi, step |-> step]
KMask(m) == [kind |-> "mask", mask |-> m]
KInts(s) == [kind |-> "ints", idx |-> s]
KGrid == [kind |-> "grid"]
KTuple == [kind |-> "tuple"]

\* np.asarray(k).size and .ndim (the grid stands for a 2 x 2 index array)
index_size(k) ==
    CASE k.kind = "int" -> 1
      [] k.kind = "mask" -> Len(k.mask)
      [] k.kind = "ints" -> Len(k.idx)
      [] k.kind = "grid" -> 4
index_ndim(k) ==
    CASE k.kind = "int" -> 0
      [] k.kind \in {"mask", "ints"} -> 1
      [] k.kind = "grid" -> 2

\* lines 292-328: __index_check, whether the index calls one item
index_check(self, k) ==
    IF k.kind = "tuple" THEN [err |-> "IndexError", individual |-> FALSE]
    ELSE IF k.kind = "slice" THEN [err |-> "none", individual |-> FALSE]
    ELSE IF index_size(k) = 1 THEN [err |-> "none", individual |-> TRUE]
    ELSE IF index_ndim(k) # 1 THEN [err |-> "IndexError", individual |-> FALSE]
    ELSE IF index_size(k) # Len(self.x)
         THEN [err |-> "IndexError", individual |-> FALSE]
    ELSE [err |-> "none", individual |-> FALSE]

\* a Python slice bound: negative bounds count from the end, then clamp
SliceBound(n, b) == Clip(IF b < 0 THEN b + n ELSE b, 0, n)

RECURSIVE Upto(_, _, _)
Upto(lo, hi, step) ==
    IF lo >= hi THEN <<>> ELSE <<lo + 1>> \o Upto(lo + step, hi, step)

RECURSIVE TruePositions(_, _)
TruePositions(mask, i) ==
    IF i > Len(mask) THEN <<>>
    ELSE (IF mask[i] THEN <<i>> ELSE <<>>) \o TruePositions(mask, i + 1)

\* the rows (1-based) an index selects of an array of n rows, in order, or
\* numpy's IndexError
positions(n, k) ==
    CASE k.kind = "int" ->
             IF -n <= k.i /\ k.i < n
             THEN [err |-> "none", pos |-> <<(k.i % n) + 1>>]
             ELSE [err |-> "IndexError", pos |-> <<>>]
      [] k.kind = "slice" ->
             [err |-> "none",
              pos |-> Upto(SliceBound(n, k.lo), SliceBound(n, k.hi), k.step)]
      [] k.kind = "mask" ->
             IF Len(k.mask) = n
             THEN [err |-> "none", pos |-> TruePositions(k.mask, 1)]
             ELSE [err |-> "IndexError", pos |-> <<>>]
      [] k.kind = "ints" ->
             IF \A j \in 1..Len(k.idx) : -n <= k.idx[j] /\ k.idx[j] < n
             THEN [err |-> "none",
                   pos |-> [j \in 1..Len(k.idx) |-> (k.idx[j] % n) + 1]]
             ELSE [err |-> "IndexError", pos |-> <<>>]
      [] OTHER -> [err |-> "IndexError", pos |-> <<>>]

\* lines 331-340: __getitem__; self.values(k) calls the array
getitem(self, k) ==
    LET take(sel) ==
            IF sel.err # "none" THEN Raise(sel.err)
            ELSE Data_init_plain(
                     Matrix([j \in 1..Len(sel.pos) |-> self.values[sel.pos[j]]]),
                     None, "none")
        checked(chk) ==
            IF chk.err # "none" THEN Raise(chk.err)
            ELSE IF chk.individual THEN Raise("TypeError")
            ELSE take(positions(Len(self.values), k))
    IN  checked(index_check(self, k))

\* __setitem__ raising only for an index that is not one integer
setitem_int_allowed(self, k, v) ==
    IF k.kind = "int" THEN Ok(self) ELSE [err |-> "TypeError", obj |-> self]

\* lines 342-350: __setitem__ always raises
setitem(self, k, v) == [err |-> "TypeError", obj |-> self]

(***************************************************************************)
(* set_x, set_y, set_data.  A value is a Data object, a numpy array, or a  *)
(* Python scalar or list (an array-like that is not an ndarray).           *)
(***************************************************************************)
VData(obj) == [py |-> "Data", data |-> obj, arr |-> Matrix(obj.values)]
VArray(a) == [py |-> "ndarray", data |-> NoData, arr |-> a]
VList(a) == [py |-> "list", data |-> NoData, arr |-> a]

\* whether numpy broadcasts an array of this shape to m target elements
Broadcasts(a, m) ==
    \/ ndim(a) = 0
    \/ /\ \A i \in 1..(ndim(a) - 1) : a.shape[i] = 1
       /\ a.shape[ndim(a)] \in {1, m}

RECURSIVE LastAt(_, _, _)
LastAt(pos, i, j) ==
    IF j = 0 THEN 0 ELSE IF pos[j] = i THEN j ELSE LastAt(pos, i, j - 1)

\* column[k] = v: the column after the assignment, or numpy's error; with a
\* repeated position the last assignment stays
assign_column(col, k, v) ==
    LET src(j) == IF size(v) = 1 THEN v.flat[1] ELSE v.flat[j]
        put(j, old) == IF j = 0 THEN old ELSE src(j)
        assign(sel, m) ==
            IF sel.err # "none" THEN [err |-> sel.err, col |-> col]
            ELSE IF k.kind = "int" /\ size(v) # 1
                 THEN [err |-> "ValueError", col |-> col]
            ELSE IF k.kind # "int" /\ ~Broadcasts(v, m)
                 THEN [err |-> "ValueError", col |-> col]
            ELSE [err |-> "none",
                  col |-> [i \in 1..Len(col) |->
                             put(LastAt(sel.pos, i, m), col[i])]]
        at(sel) == assign(sel, Len(sel.pos))
    IN  at(positions(Len(col), k))

\* lines 352-369: set_x; the object is unchanged when a step raises
set_x(self, k, v) ==
    LET init(new_x) ==
            IF new_x.err # "none" THEN [err |-> new_x.err, obj |-> self]
            ELSE Data_xy(new_x.col, self.y)
        checked(chk) ==
            IF chk.err # "none" THEN [err |-> chk.err, obj |-> self]
            ELSE init(assign_column(self.x, k, v.arr))
    IN  IF v.py = "Data" THEN [err |-> "TypeError", obj |-> self]
        ELSE checked(index_check(self, k))

\* set_y storing the assigned column as x
set_y_writes_x(self, k, v) ==
    LET init(new_y) ==
            IF new_y.err # "none" THEN [err |-> new_y.err, obj |-> self]
            ELSE Data_xy(new_y.col, self.y)
        checked(chk) ==
            IF chk.err # "none" THEN [err |-> chk.err, obj |-> self]
            ELSE init(assign_column(self.y, k, v.arr))
    IN  IF v.py = "Data" THEN [err |-> "TypeError", obj |-> self]
        ELSE checked(index_check(self, k))

\* lines 371-388: set_y
set_y(self, k, v) ==
    LET init(new_y) ==
            IF new_y.err # "none" THEN [err |-> new_y.err, obj |-> self]
            ELSE Data_xy(self.x, new_y.col)
        checked(chk) ==
            IF chk.err # "none" THEN [err |-> chk.err, obj |-> self]
            ELSE init(assign_column(self.y, k, v.arr))
    IN  IF v.py = "Data" THEN [err |-> "TypeError", obj |-> self]
        ELSE checked(index_check(self, k))

\* values[k] = v for v of shape (m, 2) and 2 * m the size of values[k]: the
\* rows after the assignment
assign_rows(rows, pos, v) ==
    LET put(src, j, old) ==
            IF j = 0 THEN old ELSE src[IF Len(src) = 1 THEN 1 ELSE j]
        from(src) ==
            [i \in 1..Len(rows) |-> put(src, LastAt(pos, i, Len(pos)), rows[i])]
    IN  from(RowsOf(v))

\* lines 390-437: set_data
set_data(self, k, v) ==
    LET assign(chk, sel, want) ==
            IF chk.err # "none" THEN [err |-> chk.err, obj |-> self]
            ELSE IF ~chk.individual /\ sel.err # "none"
                 THEN [err |-> sel.err, obj |-> self]
            ELSE IF v.py \notin {"Data", "ndarray"}
                 THEN [err |-> "TypeError", obj |-> self]
            ELSE IF v.py = "ndarray" /\ ndim(v.arr) # 2
                 THEN [err |-> "ShapeError", obj |-> self]
            ELSE IF v.py = "ndarray" /\ v.arr.shape[2] # 2
                 THEN [err |-> "ShapeError", obj |-> self]
            ELSE IF size(v.arr) # want THEN [err |-> "ShapeError", obj |-> self]
            ELSE IF sel.err # "none" THEN [err |-> sel.err, obj |-> self]
            ELSE Data_init_plain(
                     Matrix(assign_rows(self.values, sel.pos, v.arr)),
                     None, "none")
        checked(chk, sel) ==
            assign(chk, sel, IF chk.individual THEN 2 ELSE 2 * Len(sel.pos))
    IN  checked(index_check(self, k), positions(Len(self.values), k))

(***************************************************************************)
(* Lookup, subsetting and range resampling                                 *)
(***************************************************************************)
\* lines 469-497: y_from_x; x_val is a scalar or a 1-D array.  The value
\* returned is a float for one query and an array otherwise.
y_from_x(self, x_val, bounds_error, lib) ==
    LET return(y_val) ==
            IF y_val.err # "none" THEN [err |-> y_val.err, ret |-> None]
            ELSE IF Len(y_val.vals) # 1
                 THEN [err |-> "none",
                       ret |-> [shape |-> x_val.shape, flat |-> y_val.vals]]
            ELSE [err |-> "none", ret |-> Scalar(y_val.vals[1])]
    IN  IF bounds_error /\ size(x_val) = 0 THEN [err |-> "ValueError", ret |-> None]
        ELSE IF bounds_error /\ Len(self.x) = 0
             THEN [err |-> "ValueError", ret |-> None]
        ELSE IF bounds_error /\ (\/ FGt(FMaxSeq(x_val.flat), FMaxSeq(self.x))
                                 \/ FLt(FMinSeq(x_val.flat), FMinSeq(self.x)))
             THEN [err |-> "RangeError", ret |-> None]
        ELSE IF Len(self.y) = 0 THEN [err |-> "ValueError", ret |-> None]
        ELSE return(interp1d(self.x, self.y, x_val.flat, FALSE,
                             FMinSeq(self.y), FMaxSeq(self.y), lib))

\* lines 520-528: strip_nan
strip_nan(self) == Data_init_plain(Matrix(StripRows(self.values)), None, "none")

\* lines 530-538: sort
sort(self) == Data_init_plain(Matrix(ArgsortRows(self.values)), None, "none")

\* np.searchsorted(xs, q, side) on any array: numpy's bisection of [lo, hi)
\* with its NaN-last order, whether or not xs is sorted
RECURSIVE searchsorted(_, _, _, _, _)
searchsorted(xs, q, side, lo, hi) ==
    IF lo >= hi THEN lo
    ELSE LET mid == lo + ((hi - lo) \div 2)
             before == IF side = "left" THEN SortsAfter(q, xs[mid + 1])
                       ELSE ~SortsAfter(xs[mid + 1], q)
         IN  IF before THEN searchsorted(xs, q, side, mid + 1, hi)
             ELSE searchsorted(xs, q, side, lo, mid)

\* x_cut keeping the rows from the first one at or above x_min to the end
x_cut_open_end(self, x_min, x_max) ==
    IF FGt(x_min, x_max) THEN Raise("RangeError")
    ELSE Data_init_plain(
             Matrix(SubSeq(self.values,
                           searchsorted(self.x, x_min, "left", 0, Len(self.x)) + 1,
                           Len(self.x))),
             None, "none")

\* lines 499-518: x_cut, the slice of rows between two bisections
x_cut(self, x_min, x_max) ==
    IF FGt(x_min, x_max) THEN Raise("RangeError")
    ELSE Data_init_plain(
             Matrix(SubSeq(self.values,
                           searchsorted(self.x, x_min, "left", 0, Len(self.x)) + 1,
                           searchsorted(self.x, x_max, "right", 0, Len(self.x)))),
             None, "none")

\* the range resample without the check of max_x against the data
range_grid_no_max_check(self, min_x, max_x, step_size, lib) ==
    LET pair(x_vals, y_vals) ==
            IF y_vals.err # "none"
            THEN [err |-> y_vals.err, x |-> <<>>, y |-> <<>>]
            ELSE [err |-> "none", x |-> x_vals, y |-> y_vals.vals]
        on(x_vals) ==
            pair(x_vals, interp1d(self.x, self.y, x_vals, FALSE,
                                  FMinSeq(self.y), FMaxSeq(self.y), lib))
    IN  IF Len(self.x) = 0 THEN [err |-> "ValueError", x |-> <<>>, y |-> <<>>]
        ELSE IF FGt(FMinSeq(self.x), min_x)
             THEN [err |-> "RangeError", x |-> <<>>, y |-> <<>>]
        ELSE IF step_size = R(0)
             THEN [err |-> "ZeroDivisionError", x |-> <<>>, y |-> <<>>]
        ELSE on(arange(min_x, max_x, step_size))

\* lines 563-569 / 585-591: the checks, grid and interpolation of
\* interp_range and to_range
range_grid(self, min_x, max_x, step_size, lib) ==
    LET pair(x_vals, y_vals) ==
            IF y_vals.err # "none"
            THEN [err |-> y_vals.err, x |-> <<>>, y |-> <<>>]
            ELSE [err |-> "none", x |-> x_vals, y |-> y_vals.vals]
        on(x_vals) ==
            pair(x_vals, interp1d(self.x, self.y, x_vals, FALSE,
                                  FMinSeq(self.y), FMaxSeq(self.y), lib))
    IN  IF Len(self.x) = 0 THEN [err |-> "ValueError", x |-> <<>>, y |-> <<>>]
        ELSE IF FGt(FMinSeq(self.x), min_x)
             THEN [err |-> "RangeError", x |-> <<>>, y |-> <<>>]
        ELSE IF FLt(FMaxSeq(self.x), max_x)
             THEN [err |-> "RangeError", x |-> <<>>, y |-> <<>>]
        ELSE IF step_size = R(0)
             THEN [err |-> "ZeroDivisionError", x |-> <<>>, y |-> <<>>]
        ELSE on(arange(min_x, max_x, step_size))

\* lines 540-570: interp_range, a new object
interp_range(self, min_x, max_x, step_size, lib) ==
    LET new(g) == IF g.err # "none" THEN Raise(g.err) ELSE Data_xy(g.x, g.y)
    IN  new(range_grid(self, min_x, max_x, step_size, lib))

\* to_range storing the new matrix and x but leaving the old y view
to_range_keep_y(self, min_x, max_x, step_size, lib) ==
    LET init(g) ==
            IF g.err # "none" THEN [err |-> g.err, obj |-> self]
            ELSE Ok([values |-> Zip(g.x, g.y), x |-> g.x, y |-> self.y])
    IN  init(range_grid(self, min_x, max_x, step_size, lib))

\* lines 572-594: to_range, self.__init__(x_vals, y_vals)
to_range(self, min_x, max_x, step_size, lib) ==
    LET init(g) == IF g.err # "none" THEN [err |-> g.err, obj |-> self]
                   ELSE Data_xy(g.x, g.y)
    IN  init(range_grid(self, min_x, max_x, step_size, lib))

(***************************************************************************)
(* What a new object has in common with the object it was made from.       *)
(* Data(values) keeps the array it is given when _as_float_array has       *)
(* nothing to convert: np.asarray, np.ascontiguousarray and                *)
(* astype(copy=False) all return a C-contiguous float64 array as it is.    *)
(* self.values always is such an array.                                    *)
(***************************************************************************)
\* NumPy builds: with relaxed strides an axis of length 1 never breaks
\* contiguity, with strict strides its stride has to match as well
Strides == {"relaxed", "strict"}

\* whether the view values[lo:hi:step] of count rows is C-contiguous
c_contiguous(count, step, strides) ==
    step = 1 \/ count = 0 \/ (count = 1 /\ strides = "relaxed")

\* Data(self.values[k]): a slice is a view of the rows it selects, which
\* _as_float_array copies only when it is not contiguous; a mask or an
\* integer array selects into a new array
getitem_link(self, k, strides) ==
    LET of(sel) ==
            IF /\ k.kind = "slice"
               /\ Len(sel.pos) > 0
               /\ c_contiguous(Len(sel.pos), k.step, strides)
            THEN Link("index", sel.pos[1] - 1)
            ELSE Copied("index")
    IN  of(positions(Len(self.values), k))

\* Data(self.values[lo:hi, :]): a view of the rows between the bisections
x_cut_link(self, x_min, x_max) ==
    LET of(lo, hi) == IF lo < hi THEN Link("x_cut", lo) ELSE Copied("x_cut")
    IN  of(searchsorted(self.x, x_min, "left", 0, Len(self.x)),
           searchsorted(self.x, x_max, "right", 0, Len(self.x)))

\* the rows of the array `rows` once the other array holds `written`: row i
\* is the memory of row i + shift of the other array, where they overlap
seen(link, rows, written, shift) ==
    [i \in 1..Len(rows) |->
        IF link.linked /\ 0 < i + shift /\ i + shift <= Len(written)
        THEN written[i + shift] ELSE rows[i]]

(***************************************************************************)
(* State: d is the Data object under test, e a second Data object (the     *)
(* container operand of a binary operator, a member of a list), and res    *)
(* records the last call: its name, the receiver before the call, the      *)
(* argument, the exception raised ("none" when it returned), the Data      *)
(* object returned (out) and any other value returned (ret).  mutations    *)
(* counts the calls of the in-place methods made.  shares is the memory    *)
(* e.values has in common with d.values.                                   *)
(***************************************************************************)
Call(op, self, arg, r) ==
    [op |-> op, err |-> r.err, self |-> self, arg |-> arg, out |-> r.obj,
     ret |-> None]
NoCall == Call("init", NoData, OpObject, Ok(NoData))

MaxLen == 2
MaxList == 3

XVals == {R(0), R(1), NaN}
YVals == {R(-3), R(2), NaN}
Template == <<R(2), R(0), R(-1), R(5), R(3)>>

SeqsOfLen(S, n) == [1..n -> S]
SeqsUpTo(S, n) == UNION {SeqsOfLen(S, k) : k \in 0..n}

\* the Data objects of at most MaxLen rows over XVals x YVals
DataInputs ==
    UNION {{Data_xy(xs, ys).obj : xs \in SeqsOfLen(XVals, k),
                                  ys \in SeqsOfLen(YVals, k)} : k \in 0..MaxLen}

\* second objects for d: the same x with other y, one x changed, one row less
Partners(obj) ==
    LET n == Len(obj.x)
    IN  {Data_xy(obj.x, SubSeq(Template, 1, n)).obj}
          \cup {Data_xy([i \in 1..n |-> IF i = n THEN R(7) ELSE obj.x[i]],
                        obj.y).obj}
          \cup {Data_xy(SubSeq(obj.x, 1, n - 1), SubSeq(obj.y, 1, n - 1)).obj}

\* array-like operands: scalars, 1-D arrays of each length up to MaxLen + 1,
\* and arrays of dimension 2
ArrayOperands ==
    {Scalar(R(2)), Scalar(R(0)), Scalar(NaN)}
      \cup {Arr1(SubSeq(Template, 1, k)) : k \in 0..(MaxLen + 1)}
      \cup {Arr2(1, 1, <<R(2)>>), Arr2(1, 2, <<R(2), R(0)>>)}

Operands ==
    {OpData(d), OpData(e), OpObject} \cup {OpArr(a) : a \in ArrayOperands}

Idle == res = NoCall

\* the caller drops the result of the last call
Forget ==
    /\ ~Idle
    /\ res' = NoCall
    /\ UNCHANGED <<d, e, mutations, shares>>

\* d <op> other, other <op> d
Binary ==
    \E op \in BinaryOps, other \in Operands :
        /\ Idle
        /\ res' = Call(op, d, other, binary_op(op, d, other))
        /\ UNCHANGED <<d, e, mutations, shares>>

\* abs(d), -d, +d
Unary ==
    \E op \in UnaryOps :
        /\ Idle
        /\ res' = Call(op, d, OpObject, unary_op(op, d))
        /\ UNCHANGED <<d, e, mutations, shares>>

SumData ==
    \E data_list \in SeqsUpTo({d, e}, MaxList) :
        /\ Idle
        /\ res' = Call("sum_data", d, [list |-> data_list], sum_data(data_list))
        /\ UNCHANGED <<d, e, mutations, shares>>

Mean ==
    \E data_list \in SeqsUpTo({d, e}, MaxList) :
        /\ Idle
        /\ res' = Call("mean", d, [list |-> data_list], mean(data_list))
        /\ UNCHANGED <<d, e, mutations, shares>>

\* the scalars k of (d + k) - k
Scalars == {R(2), R(0), <<1, 2>>, NaN, PInf}

\* (d + k) - k, and its comparison with d
AddThenSub ==
    \E k \in Scalars :
        /\ Idle
        /\ \E sum \in {binary_op("add", d, OpArr(Scalar(k)))} :
             \E back \in {IF sum.err # "none" THEN sum
                          ELSE binary_op("sub", sum.obj, OpArr(Scalar(k)))} :
                res' = [op |-> "add_sub", err |-> back.err, self |-> d,
                        arg |-> OpArr(Scalar(k)), out |-> back.obj,
                        ret |-> IF back.err # "none" THEN None
                                ELSE Scalar(eq(back.obj, OpData(d)))]
        /\ UNCHANGED <<d, e, mutations, shares>>

\* d == other
Equal ==
    \E other \in Operands \cup {OpData(Data_copy(d).obj)} :
        /\ Idle
        /\ res' = [op |-> "eq", err |-> "none", self |-> d, arg |-> other,
                   out |-> NoData, ret |-> Scalar(eq(d, other))]
        /\ UNCHANGED <<d, e, mutations, shares>>

InitArith ==
    /\ d \in DataInputs /\ e \in Partners(d) /\ res = NoCall /\ mutations = 0
    /\ shares = NoLink
NextArith ==
    Binary \/ Unary \/ SumData \/ Mean \/ AddThenSub \/ Equal \/ Forget
SpecArith == InitArith /\ [][NextArith]_vars

(***************************************************************************)
(* Properties of the arithmetic protocol, sum_data and mean (SpecArith)    *)
(***************************************************************************)
\* every element of a equals (==) the element of b at its place
SameColumn(a, b) ==
    Len(a) = Len(b) /\ \A i \in 1..Len(a) : ~IsNaN(a[i]) /\ a[i] = b[i]

\* the operator of the method's name applied to a y value and an operand
\* element: the container's y is the left operand of <op> and the right
\* operand of the reflected form
Elementwise(op, y, o) ==
    CASE op = "add" -> FAdd(y, o)
      [] op = "radd" -> FAdd(o, y)
      [] op = "sub" -> FAdd(y, FNeg(o))
      [] op = "rsub" -> FAdd(o, FNeg(y))
      [] op = "mul" -> FMul(y, o)
      [] op = "rmul" -> FMul(o, y)
      [] op = "truediv" -> FDiv(y, o)
      [] op = "rtruediv" -> FDiv(o, y)
      [] op = "mod" -> FMod(y, o)
      [] op = "rmod" -> FMod(o, y)
      [] op = "floordiv" -> FFloorDiv(y, o)
      [] op = "rfloordiv" -> FFloorDiv(o, y)
      [] op = "pow" -> FPow(y, o)
      [] op = "rpow" -> FPow(o, y)

\* a valid operand of d: a container with the same x, a scalar, or a 1-D
\* array of one element or of as many elements as d has rows
ValidOperand(self, other) ==
    \/ other.py = "Data" /\ SameColumn(self.x, other.data.x)
    \/ other.py = "array" /\ ndim(other.arr) = 0
    \/ other.py = "array" /\ ndim(other.arr) = 1
                          /\ size(other.arr) \in {1, Len(self.x)}

OperandAt(other, i) ==
    IF other.py = "Data" THEN other.data.y[i]
    ELSE IF size(other.arr) = 1 THEN other.arr.flat[1]
    ELSE other.arr.flat[i]

\* C2: a binary operator applied to a container and a valid operand returns
\* a new container with the receiver's x, element for element, and with y
\* the operator applied elementwise to the receiver's y and the operand; the
\* receiver and a container operand are the same after the call as before.
C2_BinaryResult ==
    (res.op \in BinaryOps /\ ValidOperand(res.self, res.arg)) =>
        /\ res.err = "none"
        /\ res.out.x = res.self.x
        /\ Len(res.out.y) = Len(res.self.y)
        /\ \A i \in 1..Len(res.out.y) :
              res.out.y[i]
                = Elementwise(res.op, res.self.y[i], OperandAt(res.arg, i))
        /\ res.out.values = Zip(res.out.x, res.out.y)
        /\ d = res.self
        /\ (res.arg.py = "Data" => res.arg.data \in {d, e})

C2_Witness ==
    /\ res.op = "rsub"
    /\ res.arg.py = "Data"
    /\ res.arg.data # res.self
    /\ res.err = "none"
    /\ Len(res.out.y) >= 2
    /\ \E i \in 1..Len(res.out.y) : res.out.y[i] # FNeg(res.out.y[i])

\* C3 as stated: containers whose x columns are not element-wise equal raise
\* MismatchedAxisError, and a 1-D array whose length is not the container's
\* raises ShapeError; no container is returned.
C3_AsStated ==
    res.op \in BinaryOps =>
        /\ (res.arg.py = "Data" /\ ~SameColumn(res.self.x, res.arg.data.x))
              => (res.err = "MismatchedAxisError" /\ res.out = NoData)
        /\ (res.arg.py = "array" /\ ndim(res.arg.arr) = 1
                /\ size(res.arg.arr) # Len(res.self.x))
              => (res.err = "ShapeError" /\ res.out = NoData)

\* C3 (amended): containers whose x columns are not element-wise equal raise
\* MismatchedAxisError, and a 1-D array whose length is neither 1 nor the
\* container's length raises ShapeError; no container is returned.
C3_OperandErrors ==
    res.op \in BinaryOps =>
        /\ (res.arg.py = "Data" /\ ~SameColumn(res.self.x, res.arg.data.x))
              => (res.err = "MismatchedAxisError" /\ res.out = NoData)
        /\ (res.arg.py = "array" /\ ndim(res.arg.arr) = 1
                /\ size(res.arg.arr) \notin {1, Len(res.self.x)})
              => (res.err = "ShapeError" /\ res.out = NoData)

C3_Witness ==
    /\ res.op \in BinaryOps
    /\ res.arg.py = "Data"
    /\ Len(res.arg.data.x) = Len(res.self.x)
    /\ Len(res.self.x) >= 2
    /\ res.self.x[1] = res.arg.data.x[1]
    /\ res.err = "MismatchedAxisError"

\* C4: sum_data of a list in which some container's x column differs from
\* the first container's raises MismatchedAxisError.
C4_SumDataChecksAxis ==
    (/\ res.op = "sum_data"
     /\ res.arg.list # <<>>
     /\ \E i \in 1..Len(res.arg.list) :
            ~SameColumn(res.arg.list[i].x, res.arg.list[1].x)
            /\ res.arg.list[i].x # res.arg.list[1].x)
        => res.err = "MismatchedAxisError"

RECURSIVE SumAt(_, _)
SumAt(data_list, i) ==
    IF Len(data_list) = 1 THEN data_list[1].y[i]
    ELSE FAdd(SumAt(SubSeq(data_list, 1, Len(data_list) - 1), i),
              data_list[Len(data_list)].y[i])

\* C5: for a non-empty list of containers with identical x, sum_data returns
\* a container with that x and the elementwise sum of the y columns, and
\* mean returns that x with the sum divided by the number of containers.
C5_SumAndMean ==
    (/\ res.op \in {"sum_data", "mean"}
     /\ res.arg.list # <<>>
     /\ \A i \in 1..Len(res.arg.list) : res.arg.list[i].x = res.arg.list[1].x)
        => /\ res.err = "none"
           /\ res.out.x = res.arg.list[1].x
           /\ Len(res.out.y) = Len(res.out.x)
           /\ \A i \in 1..Len(res.out.y) :
                 res.out.y[i]
                   = IF res.op = "sum_data" THEN SumAt(res.arg.list, i)
                     ELSE FDiv(SumAt(res.arg.list, i), R(Len(res.arg.list)))

C5_Witness ==
    /\ res.op = "mean"
    /\ Len(res.arg.list) = 2
    /\ res.arg.list[1].x = res.arg.list[2].x
    /\ res.arg.list[1].y # res.arg.list[2].y
    /\ res.err = "none"
    /\ Len(res.out.y) >= 2
    /\ \E i \in 1..Len(res.out.y) : IsFinite(res.out.y[i]) /\ res.out.y[i][2] = 2

\* C8: unary negate, positive and absolute value return a new container with
\* the receiver's x and with y equal to -y, +y and |y|; the receiver is
\* unchanged.
C8_UnaryResult ==
    res.op \in UnaryOps =>
        /\ res.err = "none"
        /\ res.out.x = res.self.x
        /\ Len(res.out.y) = Len(res.self.y)
        /\ \A i \in 1..Len(res.out.y) :
              res.out.y[i]
                = (CASE res.op = "neg" -> FSub(R(0), res.self.y[i])
                     [] res.op = "pos" -> res.self.y[i]
                     [] res.op = "abs" ->
                          IF FLt(res.self.y[i], R(0))
                          THEN FSub(R(0), res.self.y[i]) ELSE res.self.y[i])
        /\ d = res.self

(***************************************************************************)
(* The in-place methods: set_x, set_y, set_data, to_even and to_range      *)
(* re-run __init__ on the object (Spec).                                   *)
(***************************************************************************)
MaxMutations == 2

Rows0 == <<<<R(0), R(2)>>, <<R(2), R(-3)>>, <<R(1), R(0)>>, <<R(4), R(1)>>>>

\* the objects a caller can construct from the first rows of Rows0: from a
\* matrix, from two columns, from another object, with every strip_sort and
\* with or without interp_full (a construction that raises leaves no object)
Constructions ==
    LET rows(k) == SubSeq(Rows0, 1, k)
    IN  UNION {
          {Data_init(Matrix(rows(k)), None, m, st, lib) :
               m \in StripSortModes, st \in {R(0), R(1)}, lib \in Libs}
            \cup {Data_init(Arr1(Col(rows(k), 1)), Arr1(Col(rows(k), 2)),
                            "none", R(0), "np_interp")}
            \cup {Data_init(Arr1(Col(rows(k), 1)), Arr1(Col(rows(1), 2)),
                            "none", R(0), "np_interp")}
            \cup {Data_init(Arr1(Col(rows(k), 1)), None, "none", R(0),
                            "np_interp")}
            \cup {Data_copy(Data_xy(Col(rows(k), 1), Col(rows(k), 2)).obj)}
          : k \in 0..MaxLen}

Constructed == {r.obj : r \in {c \in Constructions : c.err = "none"}}

\* indices for an object of n rows
Indices(n) ==
    {KInt(0), KInt(-1), KInt(n), KSlice(0, n, 1), KSlice(1, n + 1, 2),
     KMask([i \in 1..n |-> TRUE]), KMask([i \in 1..n |-> i = 1]),
     KMask([i \in 1..(n + 1) |-> TRUE]),
     KInts([i \in 1..n |-> n - i]), KGrid, KTuple}

ColumnValues ==
    {VList(Scalar(R(1))), VList(Scalar(NaN)), VArray(Arr1(<<R(3), R(1)>>))}

MatrixValues ==
    {VArray(Arr2(1, 2, <<R(1), R(1)>>)),
     VArray(Arr2(2, 2, <<R(3), R(1), R(1), NaN>>)),
     VArray(Arr2(1, 3, <<R(1), R(1), R(1)>>)),
     VArray(Arr1(<<R(1), R(1)>>)),
     VList(Arr2(1, 2, <<R(1), R(1)>>))}

CanMutate == Idle /\ mutations < MaxMutations

\* the record of a call of an in-place method on self: it returns nothing
Mutated(op, self, arg, r) ==
    [op |-> op, err |-> r.err, self |-> self, arg |-> arg, out |-> NoData,
     ret |-> None]

SetX ==
    \E k \in Indices(Len(d.values)), v \in ColumnValues \cup {VData(e)} :
        /\ CanMutate
        /\ \E r \in {set_x(d, k, v)} :
              d' = r.obj /\ res' = Mutated("set_x", d, [k |-> k, v |-> v], r)
        /\ mutations' = mutations + 1
        /\ UNCHANGED <<e, shares>>

SetY ==
    \E k \in Indices(Len(d.values)), v \in ColumnValues \cup {VData(e)} :
        /\ CanMutate
        /\ \E r \in {set_y(d, k, v)} :
              d' = r.obj /\ res' = Mutated("set_y", d, [k |-> k, v |-> v], r)
        /\ mutations' = mutations + 1
        /\ UNCHANGED <<e, shares>>

SetData ==
    \E k \in Indices(Len(d.values)), v \in MatrixValues \cup {VData(e)} :
        /\ CanMutate
        /\ \E r \in {set_data(d, k, v)} :
              d' = r.obj /\ res' = Mutated("set_data", d, [k |-> k, v |-> v], r)
        /\ mutations' = mutations + 1
        /\ UNCHANGED <<e, shares>>

\* step sizes and range bounds of the resampling calls
Steps == {R(0), R(1), R(2), <<1, 2>>, R(-1)}
Lows == {R(-1), R(0), R(1)}
Highs == {R(1), R(2), R(5)}

\* the record of a call of an in-place method that ends in "return self" (the
\* record of an even-grid resample also names the interp1d it ran)
ReturnedSelf(op, self, arg, r) ==
    Call(op, self, arg, IF r.err = "none" THEN r ELSE Raise(r.err))

ToEven ==
    \E step \in Steps, lib \in Libs :
        /\ CanMutate
        /\ \E r \in {to_even(d, step, lib)} :
              /\ d' = r.obj
              /\ res' = ReturnedSelf("to_even", d,
                                     [step |-> step, lib |-> lib], r)
        /\ mutations' = mutations + 1
        /\ UNCHANGED <<e, shares>>

ToRange ==
    \E lo \in Lows, hi \in Highs, step \in Steps, lib \in Libs :
        /\ CanMutate
        /\ \E r \in {to_range(d, lo, hi, step, lib)} :
              /\ d' = r.obj
              /\ res' = ReturnedSelf("to_range", d,
                                     [min_x |-> lo, max_x |-> hi, step |-> step],
                                     r)
        /\ mutations' = mutations + 1
        /\ UNCHANGED <<e, shares>>

Init ==
    /\ d \in Constructed
    /\ e \in {Data_xy(<<R(5)>>, <<R(6)>>).obj,
              Data_xy(<<R(5), R(6)>>, <<R(7), R(8)>>).obj}
    /\ res = NoCall
    /\ mutations = 0
    /\ shares = NoLink
Next == SetX \/ SetY \/ SetData \/ ToEven \/ ToRange \/ Forget
Spec == Init /\ [][Next]_vars

\* C1: in every observable state the x column, the y column and the backing
\* matrix of the container have the same number of rows.
C1_SameLength ==
    /\ Len(d.x) = Len(d.values)
    /\ Len(d.y) = Len(d.values)

\* a resampling call on finite samples changed the number of rows
C1_Witness ==
    /\ res.op \in {"to_even", "to_range"}
    /\ res.err = "none"
    /\ \A i \in 1..Len(res.self.x) : IsFinite(res.self.x[i])
    /\ Len(d.values) # Len(res.self.values)
    /\ Len(d.values) >= 2
    /\ mutations = 2

(***************************************************************************)
(* Construction and the strip and sort methods (SpecCtor): the caller      *)
(* builds the object d once, from a matrix or from two columns, and then   *)
(* calls strip_nan() and sort() on it.                                     *)
(***************************************************************************)
MaxRows == 2

CtorX == {R(0), R(1), NaN}
CtorY == {R(2), NaN, PInf}
CtorRows == SeqsUpTo(CtorX \X CtorY, MaxRows)

\* matrix-mode inputs: the (n, 2) arrays over CtorX x CtorY and arrays of
\* other shapes
MatrixInputs ==
    {Matrix(rows) : rows \in CtorRows}
      \cup {Arr1(<<R(0), R(2)>>), Arr2(1, 3, <<R(0), R(2), R(1)>>), Scalar(R(0)),
            Arr1(<<>>), Arr2(2, 1, <<R(0), R(2)>>),
            [shape |-> <<1, 1, 2>>, flat |-> <<R(0), R(2)>>]}

\* split-mode inputs: 1-D arrays of each length, a 0-D and a 2-D array
ColumnInputs ==
    {Arr1(s) : s \in SeqsUpTo({R(1), NaN}, MaxRows)}
      \cup {Scalar(R(0)), Arr2(1, 2, <<R(0), R(2)>>)}

\* the record of a call Data(values, split_y, strip_sort)
Constructing(values, split_y, strip_sort, r) ==
    Call("Data", NoData,
         [values |-> values, split_y |-> split_y, strip_sort |-> strip_sort], r)

\* d = Data(values, strip_sort=m): d is bound only when the call returns
ConstructMatrix ==
    \E values \in MatrixInputs, m \in StripSortModes :
        /\ Idle
        /\ d = NoData
        /\ \E r \in {Data_init(values, None, m, R(0), "np_interp")} :
              /\ res' = Constructing(values, None, m, r)
              /\ d' = IF r.err = "none" THEN r.obj ELSE d
        /\ UNCHANGED <<e, mutations, shares>>

\* d = Data(values, split_y, strip_sort=m)
ConstructSplit ==
    \E values \in ColumnInputs, split_y \in ColumnInputs,
       m \in {"none", "strip"} :
        /\ Idle
        /\ d = NoData
        /\ \E r \in {Data_init(values, split_y, m, R(0), "np_interp")} :
              /\ res' = Constructing(values, split_y, m, r)
              /\ d' = IF r.err = "none" THEN r.obj ELSE d
        /\ UNCHANGED <<e, mutations, shares>>

StripNan ==
    /\ Idle
    /\ res' = Call("strip_nan", d, OpObject, strip_nan(d))
    /\ UNCHANGED <<d, e, mutations, shares>>

Sort ==
    /\ Idle
    /\ res' = Call("sort", d, OpObject, sort(d))
    /\ UNCHANGED <<d, e, mutations, shares>>

InitCtor ==
    /\ d = NoData /\ e = NoData /\ res = NoCall /\ mutations = 0
    /\ shares = NoLink
NextCtor == ConstructMatrix \/ ConstructSplit \/ StripNan \/ Sort \/ Forget
SpecCtor == InitCtor /\ [][NextCtor]_vars

\* the rows given to a constructor call that returned
InputRows(arg) ==
    IF arg.split_y = None THEN RowsOf(arg.values)
    ELSE Zip(arg.values.flat, arg.split_y.flat)

\* the rows in which both x and y are finite, in their order
FiniteRows(rows) ==
    SelectRows(rows, [i \in 1..Len(rows) |->
                        IsFinite(rows[i][1]) /\ IsFinite(rows[i][2])])

\* C6: a construction with strip_sort='strip' that returns, and strip_nan(),
\* give exactly the rows of the input in which both x and y are finite, in
\* their original order.
C6_StripKeepsFiniteRows ==
    /\ (res.op = "Data" /\ res.err = "none" /\ res.arg.strip_sort = "strip")
          => res.out.values = FiniteRows(InputRows(res.arg))
    /\ (res.op = "strip_nan" /\ res.err = "none")
          => res.out.values = FiniteRows(res.self.values)

\* C7: a split-mode construction with an input that is not 1-dimensional, or
\* with inputs of different sizes, raises ShapeError and creates no object.
C7_SplitShapeError ==
    (/\ res.op = "Data"
     /\ res.arg.split_y # None
     /\ \/ ndim(res.arg.values) # 1
        \/ ndim(res.arg.split_y) # 1
        \/ size(res.arg.values) # size(res.arg.split_y))
      => (res.err = "ShapeError" /\ res.out = NoData /\ d = NoData)

(***************************************************************************)
(* Reading an object (SpecRead): indexing and y_from_x on an object d of   *)
(* at most MaxLen rows.                                                    *)
(***************************************************************************)
\* query values of y_from_x: a scalar or a 1-D array
Queries ==
    {Scalar(R(-1)), Scalar(R(0)), Scalar(<<1, 2>>), Scalar(R(5)), Scalar(NaN),
     Arr1(<<R(-1), R(5)>>), Arr1(<<R(0), R(1)>>)}

GetItem ==
    \E k \in Indices(Len(d.values)) :
        /\ Idle
        /\ res' = Call("getitem", d, [k |-> k], getitem(d, k))
        /\ UNCHANGED <<d, e, mutations, shares>>

SetItem ==
    \E k \in Indices(Len(d.values)),
       v \in ColumnValues \cup MatrixValues \cup {VData(d)} :
        /\ Idle
        /\ \E r \in {setitem(d, k, v)} :
              /\ d' = r.obj
              /\ res' = [op |-> "setitem", err |-> r.err, self |-> d,
                         arg |-> [k |-> k, v |-> v], out |-> NoData,
                         ret |-> None]
        /\ UNCHANGED <<e, mutations, shares>>

YFromX ==
    \E x_val \in Queries, bounds_error \in BOOLEAN, lib \in Libs :
        /\ Idle
        /\ \E r \in {y_from_x(d, x_val, bounds_error, lib)} :
              res' = [op |-> "y_from_x", err |-> r.err, self |-> d,
                      arg |-> [x_val |-> x_val, bounds_error |-> bounds_error],
                      out |-> NoData, ret |-> r.ret]
        /\ UNCHANGED <<d, e, mutations, shares>>

InitRead ==
    /\ d \in DataInputs /\ e = NoData /\ res = NoCall /\ mutations = 0
    /\ shares = NoLink
NextRead == GetItem \/ SetItem \/ YFromX \/ Forget
SpecRead == InitRead /\ [][NextRead]_vars

\* the rows an in-range slice or a mask of length N selects, in order
SelectedRows(rows, k) ==
    IF k.kind = "mask" THEN SelectRows(rows, k.mask)
    ELSE LET lo == SliceBound(Len(rows), k.lo)
             hi == SliceBound(Len(rows), k.hi)
             m == IF hi > lo THEN (hi - lo + k.step - 1) \div k.step ELSE 0
         IN  [j \in 1..m |-> rows[lo + 1 + (j - 1) * k.step]]

\* C9: d[i] for an integer position i is the pair [x[i], y[i]]; d[slice] and
\* d[mask] for a mask of length N are new objects of the selected rows; a
\* tuple index raises.
C9_Indexing ==
    res.op = "getitem" =>
        LET n == Len(res.self.values)
            k == res.arg.k
        IN  /\ (k.kind = "int" /\ -n <= k.i /\ k.i < n)
                  => /\ res.err = "none"
                     /\ res.ret = Arr1(res.self.values[(k.i % n) + 1])
            /\ (k.kind = "slice" \/ (k.kind = "mask" /\ Len(k.mask) = n))
                  => /\ res.err = "none"
                     /\ res.out.values = SelectedRows(res.self.values, k)
            /\ k.kind = "tuple" => res.err # "none"

\* C10: a scalar query outside [min_x, max_x] raises RangeError with the
\* bounds check, and without it returns the y of a sample at the lowest x
\* (query below) or at the highest x (query above).
C10_OutOfRange ==
    (/\ res.op = "y_from_x"
     /\ Len(res.self.x) >= 1
     /\ \A i \in 1..Len(res.self.x) : IsFinite(res.self.x[i])
     /\ ndim(res.arg.x_val) = 0
     /\ \/ FLt(res.arg.x_val.flat[1], FMinSeq(res.self.x))
        \/ FGt(res.arg.x_val.flat[1], FMaxSeq(res.self.x)))
      => IF res.arg.bounds_error THEN res.err = "RangeError"
         ELSE /\ res.err = "none"
              /\ \E i \in 1..Len(res.self.x) :
                    /\ res.self.x[i]
                         = (IF FLt(res.arg.x_val.flat[1], FMinSeq(res.self.x))
                            THEN FMinSeq(res.self.x) ELSE FMaxSeq(res.self.x))
                    /\ res.ret = Scalar(res.self.y[i])

(***************************************************************************)
(* Resampling and cutting (SpecResample): the range and even-grid          *)
(* resamples, in their new-object and in-place variants, and x_cut, on an  *)
(* object d of at most MaxSamples rows.                                    *)
(***************************************************************************)
MaxSamples == 5

\* the first n samples of y = x^2 on x = 0, 1, 2, ...
SampleRows(n) == [i \in 1..n |-> <<R(i - 1), R((i - 1) * (i - 1))>>]

\* the samples in ascending and in descending order, on the half-integer
\* grid x = 1/2, 1, 3/2, ..., and with every x repeated
SampleInputs ==
    UNION {{MkData(SampleRows(n)),
            MkData([i \in 1..n |-> SampleRows(n)[n + 1 - i]]),
            MkData([i \in 1..n |-> <<Norm(i, 2), SampleRows(n)[i][2]>>]),
            MkData([i \in 1..n |-> <<R((i - 1) \div 2), SampleRows(n)[i][2]>>])}
           : n \in 0..MaxSamples}

InterpRange ==
    \E lo \in Lows, hi \in Highs, step \in Steps, lib \in Libs :
        /\ Idle
        /\ res' = Call("interp_range", d,
                       [min_x |-> lo, max_x |-> hi, step |-> step],
                       interp_range(d, lo, hi, step, lib))
        /\ UNCHANGED <<d, e, mutations, shares>>

InterpFull ==
    \E step \in Steps, lib \in Libs :
        /\ Idle
        /\ res' = Call("interp_full", d, [step |-> step, lib |-> lib],
                       interp_full(d, step, lib))
        /\ UNCHANGED <<d, e, mutations, shares>>

XCut ==
    \E x_min \in Lows \cup Highs, x_max \in Lows \cup Highs :
        /\ Idle
        /\ res' = Call("x_cut", d, [x_min |-> x_min, x_max |-> x_max],
                       x_cut(d, x_min, x_max))
        /\ UNCHANGED <<d, e, mutations, shares>>

InitResample ==
    /\ d \in SampleInputs /\ e = NoData /\ res = NoCall /\ mutations = 0
    /\ shares = NoLink
NextResample ==
    InterpRange \/ ToRange \/ InterpFull \/ ToEven \/ XCut \/ Forget
SpecResample == InitResample /\ [][NextResample]_vars

AllFinite(s) == \A i \in 1..Len(s) : IsFinite(s[i])

C12_EvenGrid ==
    (res.op \in {"interp_full", "to_even"} /\ Len(res.self.x) >= 1
       /\ AllFinite(res.self.x) /\ FGt(res.arg.step, R(0)))
      => LET s == res.arg.step
             lo == FMinSeq(res.self.x)
             hi == FMaxSeq(res.self.x)
             start == FMul(FCeil(FDiv(lo, s)), s)
             stop == FMul(FFloor(FDiv(hi, s)), s)
             n == RoundInt(FDiv(FSub(stop, start), s)) + 1
             xs == res.out.x
         IN  /\ Len(res.self.x) >= 2 => res.err = "none"
             /\ res.err = "none" =>
                   /\ Len(xs) = n
                   /\ \A i \in 1..n :
                         /\ xs[i] = FAdd(start, FMul(R(i - 1), s))
                         /\ IsInteger(FDiv(xs[i], s))
                         /\ FLe(lo, xs[i]) /\ FLe(xs[i], hi)
                   /\ n >= 1 => xs[n] = stop
                   /\ res.out = interp_full(res.self, s, res.arg.lib).obj
                   /\ res.out = to_even(res.self, s, res.arg.lib).obj
                   /\ res.op = "to_even" => d = res.out
                   /\ res.op = "interp_full" => d = res.self
                   /\ (res.self.values = SampleRows(5) /\ s = R(2))
                         => /\ res.out.x = <<R(0), R(2), R(4)>>
                            /\ res.out.y = <<R(0), R(4), R(16)>>

\* to_even(2) on the five samples of the example
C12_Witness ==
    /\ res.op = "to_even"
    /\ res.err = "none"
    /\ res.self.values = SampleRows(5)
    /\ res.arg.step = R(2)
    /\ d.x = <<R(0), R(2), R(4)>>

Ascending(s) == \A i \in 1..(Len(s) - 1) : FLe(s[i], s[i + 1])

\* C13: on an object with ascending x, x_cut(a, b) raises RangeError when
\* a > b; when a <= b it returns a new object of exactly the rows with
\* a <= x <= b, in their order, and all rows when [a, b] covers every x.
C13_XCut ==
    (res.op = "x_cut" /\ AllFinite(res.self.x) /\ Ascending(res.self.x))
      => LET a == res.arg.x_min
             b == res.arg.x_max
             rows == res.self.values
         IN  /\ d = res.self
             /\ IF FGt(a, b) THEN res.err = "RangeError" /\ res.out = NoData
                ELSE /\ res.err = "none"
                     /\ res.out.values
                          = SelectRows(rows, [i \in 1..Len(rows) |->
                                                FLe(a, rows[i][1])
                                                  /\ FLe(rows[i][1], b)])
                     /\ (\A i \in 1..Len(rows) :
                             FLe(a, rows[i][1]) /\ FLe(rows[i][1], b))
                           => res.out.values = rows

\* a cut whose two bounds are repeated x values, all of them kept, with rows
\* dropped on both sides
C13_Witness ==
    /\ res.op = "x_cut"
    /\ res.err = "none"
    /\ Ascending(res.self.x)
    /\ res.self.x = <<R(0), R(0), R(1), R(1), R(2)>>
    /\ res.arg.x_min = R(1)
    /\ res.out.x = <<R(1), R(1)>>

\* the rows (1-based) of an array of n rows that a valid index addresses
Addressed(n, k) ==
    CASE k.kind = "int" -> {(k.i % n) + 1}
      [] k.kind = "slice" ->
           {i \in 1..n : /\ i > SliceBound(n, k.lo)
                         /\ i <= SliceBound(n, k.hi)
                         /\ (i - 1 - SliceBound(n, k.lo)) % k.step = 0}
      [] k.kind = "mask" -> {i \in 1..n : k.mask[i]}
      [] k.kind = "ints" -> {(k.idx[j] % n) + 1 : j \in 1..Len(k.idx)}
      [] OTHER -> {}

Count(rows, r) == Cardinality({i \in 1..Len(rows) : rows[i] = r})

Permutation(a, b) ==
    /\ Len(a) = Len(b)
    /\ \A i \in 1..Len(a) : Count(a, a[i]) = Count(b, a[i])

\* no x is followed, anywhere later, by a smaller x
NonDecreasing(xs) ==
    \A i \in 1..Len(xs) : \A j \in (i + 1)..Len(xs) : ~FGt(xs[i], xs[j])

\* C15: a construction with strip_sort='sort', and sort(), give a permutation
\* of the input rows with non-decreasing x; strip_sort=True gives the rows
\* with both values finite, ordered by non-decreasing x.
C15_SortedRows ==
    /\ (res.op = "Data" /\ res.err = "none" /\ res.arg.strip_sort = "sort")
          => /\ Permutation(res.out.values, InputRows(res.arg))
             /\ NonDecreasing(res.out.x)
    /\ (res.op = "sort" /\ res.err = "none")
          => /\ Permutation(res.out.values, res.self.values)
             /\ NonDecreasing(res.out.x)
             /\ d = res.self
    /\ (res.op = "Data" /\ res.err = "none" /\ res.arg.strip_sort = "both")
          => /\ Permutation(res.out.values, FiniteRows(InputRows(res.arg)))
             /\ NonDecreasing(res.out.x)

\* C16: a construction without split_y from an array that is not 2-D or has
\* not exactly 2 columns raises ShapeError and creates no object; an array
\* of shape (N, 2), N >= 0, is accepted.
C16_MatrixShape ==
    (res.op = "Data" /\ res.arg.split_y = None)
      => IF ndim(res.arg.values) = 2 /\ res.arg.values.shape[2] = 2
         THEN res.err = "none" /\ d = res.out
         ELSE res.err = "ShapeError" /\ res.out = NoData /\ d = NoData

\* an array of one row and three columns was refused
C16_Witness ==
    /\ res.op = "Data"
    /\ res.arg.split_y = None
    /\ res.arg.values.shape = <<1, 3>>
    /\ res.err = "ShapeError"
    /\ d = NoData

C19_SetItemRejected ==
    res.op = "setitem" => (res.err # "none" /\ d = res.self)

\* an assignment that numpy would take (an in-range integer index, a scalar
\* value) was refused
C19_Witness ==
    /\ res.op = "setitem"
    /\ res.arg.k = KInt(0)
    /\ Len(res.self.values) = 2
    /\ size(res.arg.v.arr) = 1
    /\ res.err = "TypeError"
    /\ d = res.self

HasNaN(rows) == \E i \in 1..Len(rows) : IsNaN(rows[i][1]) \/ IsNaN(rows[i][2])

\* C20: d == other is true exactly when other is a container of as many rows
\* with both columns element-wise equal, a NaN equal to nothing (an object
\* holding a NaN differs from its own copy); with a value that is not a
\* container the answer is False and nothing is raised.
C20_Equality ==
    res.op = "eq" =>
        /\ res.err = "none"
        /\ d = res.self
        /\ IF res.arg.py # "Data" THEN res.ret = Scalar(FALSE)
           ELSE LET a == res.self.values
                    b == res.arg.data.values
                IN  /\ res.ret
                         = Scalar(/\ Len(a) = Len(b)
                                  /\ \A i \in 1..Len(a) :
                                        /\ FEq(a[i][1], b[i][1])
                                        /\ FEq(a[i][2], b[i][2]))
                    /\ (HasNaN(a) /\ a = b) => res.ret = Scalar(FALSE)

\* an object of two rows holding a NaN was compared with its copy
C20_Witness ==
    /\ res.op = "eq"
    /\ res.arg.py = "Data"
    /\ res.arg.data.values = res.self.values
    /\ Len(res.self.values) = 2
    /\ HasNaN(res.self.values)
    /\ res.ret = Scalar(FALSE)

(***************************************************************************)
(* Two containers.  d is the container a and e the container b made from   *)
(* it by a call that returns a new object; the in-place methods are then   *)
(* called on either of them.  An assignment new_x[k] = v, new_y[k] = v or  *)
(* new_data[k] = v writes into the buffer before __init__ runs again, so   *)
(* the other container sees it in the rows it has in common.  set_x and    *)
(* set_y rebuild the array with np.concatenate, to_even and to_range from  *)
(* the resampled columns, and leave the buffer to the other container;     *)
(* set_data keeps its array.  Each behaviour makes one b, then writes.     *)
(***************************************************************************)
MaxShared == 2

Target(who) == IF who = "a" THEN d ELSE e
Other(who) == IF who = "a" THEN e ELSE d

\* the record of a call on one of the two containers: out is the object the
\* call returned or rebuilt, other the second container before the call
CallOn(who, op, arg, r) ==
    [op |-> op, err |-> r.err, self |-> Target(who), arg |-> arg,
     out |-> r.obj, ret |-> None, who |-> who, other |-> Other(who)]

\* the containers a of up to MaxShared rows: samples of y = x^2, in
\* ascending and descending order and with a NaN in the first y
SharedInputs ==
    UNION {{MkData(SampleRows(n)),
            MkData([i \in 1..n |-> SampleRows(n)[n + 1 - i]]),
            MkData([i \in 1..n |-> <<SampleRows(n)[i][1],
                                     IF i = 1 THEN NaN
                                     ELSE SampleRows(n)[i][2]>>])}
           : n \in 1..MaxShared}

\* b has not been made yet
CanDerive == Idle /\ shares.how = "none"

\* d and e after a call on `who` that wrote the rows of r.obj into the
\* array of that object (nothing is written when the call raised)
after_write(who, r) ==
    IF r.err # "none" THEN [d |-> d, e |-> e]
    ELSE IF who = "a"
         THEN [d |-> r.obj,
               e |-> MkData(seen(shares, e.values, r.obj.values, shares.off))]
    ELSE [d |-> MkData(seen(shares, d.values, r.obj.values, -shares.off)),
          e |-> r.obj]

DeriveCopy ==
    /\ CanDerive
    /\ \E r \in {Data_copy(d)} :
          /\ res' = CallOn("a", "copy", OpObject, r)
          /\ e' = IF r.err = "none" THEN r.obj ELSE e
          /\ shares' = IF r.err # "none" THEN shares
                       ELSE IF Len(d.values) > 0 THEN Link("copy", 0)
                       ELSE Copied("copy")
    /\ UNCHANGED <<d, mutations>>

DeriveIndex ==
    \E k \in Indices(Len(d.values))
                 \cup {KSlice(1, Len(d.values), 1), KSlice(0, 1, 2)},
       strides \in Strides :
        /\ CanDerive
        /\ \E r \in {getitem(d, k)} :
              /\ res' = CallOn("a", "getitem", [k |-> k], r)
              /\ e' = IF r.err = "none" THEN r.obj ELSE e
              /\ shares' = IF r.err = "none" THEN getitem_link(d, k, strides)
                           ELSE shares
        /\ UNCHANGED <<d, mutations>>

DeriveCut ==
    \E x_min \in Lows, x_max \in Highs :
        /\ CanDerive
        /\ \E r \in {x_cut(d, x_min, x_max)} :
              /\ res' = CallOn("a", "x_cut",
                               [x_min |-> x_min, x_max |-> x_max], r)
              /\ e' = IF r.err = "none" THEN r.obj ELSE e
              /\ shares' = IF r.err = "none" THEN x_cut_link(d, x_min, x_max)
                           ELSE shares
        /\ UNCHANGED <<d, mutations>>

DeriveSort ==
    /\ CanDerive
    /\ \E r \in {sort(d)} :
          /\ res' = CallOn("a", "sort", OpObject, r)
          /\ e' = IF r.err = "none" THEN r.obj ELSE e
          /\ shares' = IF r.err = "none" THEN Copied("sort") ELSE shares
    /\ UNCHANGED <<d, mutations>>

DeriveStrip ==
    /\ CanDerive
    /\ \E r \in {strip_nan(d)} :
          /\ res' = CallOn("a", "strip_nan", OpObject, r)
          /\ e' = IF r.err = "none" THEN r.obj ELSE e
          /\ shares' = IF r.err = "none" THEN Copied("strip_nan") ELSE shares
    /\ UNCHANGED <<d, mutations>>

DeriveResample ==
    \E step \in {R(1), R(2)}, lib \in Libs :
        /\ CanDerive
        /\ \E r \in {interp_full(d, step, lib)} :
              /\ res' = CallOn("a", "interp_full",
                               [step |-> step, lib |-> lib], r)
              /\ e' = IF r.err = "none" THEN r.obj ELSE e
              /\ shares' = IF r.err = "none" THEN Copied("interp_full")
                           ELSE shares
        /\ UNCHANGED <<d, mutations>>

DeriveArith ==
    \E op \in BinaryOps :
        /\ CanDerive
        /\ \E r \in {binary_op(op, d, OpArr(Scalar(R(2))))} :
              /\ res' = CallOn("a", op, OpArr(Scalar(R(2))), r)
              /\ e' = IF r.err = "none" THEN r.obj ELSE e
              /\ shares' = IF r.err = "none" THEN Copied("arith") ELSE shares
        /\ UNCHANGED <<d, mutations>>

SetXOn ==
    \E who \in {"a", "b"} :
        \E k \in Indices(Len(Target(who).values)), v \in ColumnValues :
            /\ CanMutate /\ ~CanDerive
            /\ \E r \in {set_x(Target(who), k, v)} :
                  /\ res' = CallOn(who, "set_x", [k |-> k, v |-> v], r)
                  /\ d' = after_write(who, r).d
                  /\ e' = after_write(who, r).e
                  /\ shares' = IF r.err = "none" THEN Copied(shares.how)
                               ELSE shares
            /\ mutations' = mutations + 1

SetYOn ==
    \E who \in {"a", "b"} :
        \E k \in Indices(Len(Target(who).values)), v \in ColumnValues :
            /\ CanMutate /\ ~CanDerive
            /\ \E r \in {set_y(Target(who), k, v)} :
                  /\ res' = CallOn(who, "set_y", [k |-> k, v |-> v], r)
                  /\ d' = after_write(who, r).d
                  /\ e' = after_write(who, r).e
                  /\ shares' = IF r.err = "none" THEN Copied(shares.how)
                               ELSE shares
            /\ mutations' = mutations + 1

SetDataOn ==
    \E who \in {"a", "b"} :
        \E k \in Indices(Len(Target(who).values)), v \in MatrixValues :
            /\ CanMutate /\ ~CanDerive
            /\ \E r \in {set_data(Target(who), k, v)} :
                  /\ res' = CallOn(who, "set_data", [k |-> k, v |-> v], r)
                  /\ d' = after_write(who, r).d
                  /\ e' = after_write(who, r).e
            /\ mutations' = mutations + 1
            /\ UNCHANGED shares

ToEvenOn ==
    \E who \in {"a", "b"}, step \in {R(0), R(1), R(2)}, lib \in Libs :
        /\ CanMutate /\ ~CanDerive
        /\ \E r \in {to_even(Target(who), step, lib)} :
              /\ res' = CallOn(who, "to_even", [step |-> step, lib |-> lib], r)
              /\ d' = IF who = "a" THEN r.obj ELSE d
              /\ e' = IF who = "b" THEN r.obj ELSE e
              /\ shares' = IF r.err = "none" THEN Copied(shares.how)
                           ELSE shares
        /\ mutations' = mutations + 1

ToRangeOn ==
    \E who \in {"a", "b"}, lo \in {R(0), R(1)}, hi \in {R(1), R(5)}, lib \in Libs :
        /\ CanMutate /\ ~CanDerive
        /\ \E r \in {to_range(Target(who), lo, hi, R(1), lib)} :
              /\ res' = CallOn(who, "to_range",
                               [min_x |-> lo, max_x |-> hi, step |-> R(1)], r)
              /\ d' = IF who = "a" THEN r.obj ELSE d
              /\ e' = IF who = "b" THEN r.obj ELSE e
              /\ shares' = IF r.err = "none" THEN Copied(shares.how)
                           ELSE shares
        /\ mutations' = mutations + 1

InitShared ==
    /\ d \in SharedInputs /\ e = NoData /\ res = NoCall /\ mutations = 0
    /\ shares = NoLink
NextShared ==
    \/ DeriveCopy \/ DeriveIndex \/ DeriveCut \/ DeriveSort \/ DeriveStrip
    \/ DeriveResample \/ DeriveArith
    \/ SetXOn \/ SetYOn \/ SetDataOn \/ ToEvenOn \/ ToRangeOn \/ Forget
SpecShared == InitShared /\ [][NextShared]_vars

InPlace == {"set_x", "set_y", "set_data", "to_even", "to_range"}

\* C21: a call that makes a new container b from a leaves a's x and y as
\* they were, and once b was made from a (by copy-construction, slice or mask
\* indexing, x_cut, sort, strip_nan, a resample or an arithmetic operator) no
\* call of set_x, set_y, set_data, to_even or to_range on one of the two
\* changes the x and y of the other.
C21_NoSharedState ==
    /\ (res.op \notin InPlace /\ res.op # "init") => d = res.self
    /\ (res.op \in InPlace /\ shares.how # "none") =>
           Other(res.who) = res.other
====
